---- MODULE Spec2Model ----
(***************************************************************************)
(* The order-analytics pipeline of analisi_comp: the Shaper                *)
(* (scripts/C_shaping.py), the Importer (scripts/A_import.py) and the      *)
(* Writer (scripts/D_output.py).                                           *)
(*                                                                         *)
(* A table (pandas DataFrame) is a record [cols, rows]: cols is the set of *)
(* column names, rows the set of its rows, each row a record whose fields  *)
(* are exactly cols.  The Cleaner's grouping (B_cleaning.py:62-74) leaves  *)
(* one row per dimension tuple, so the rows of a cleaned table are         *)
(* pairwise distinct and a set holds them; the row order and the index,    *)
(* which no Shaper operation reads, are not part of the model.  The        *)
(* columns customer_sold_to and division, which no Shaper operation reads  *)
(* or writes, are left out of the rows.                                    *)
(*                                                                         *)
(* A text value (str) is a TLA+ string where the code only concatenates    *)
(* and compares it, and a sequence of one-character strings where the code *)
(* slices or splits it (release, file names).                              *)
(***************************************************************************)
EXTENDS Integers, Sequences, FiniteSets, TLC

VARIABLES data, res, year_week, calls, io, disk

vars == <<data, res, year_week, calls, io, disk>>

\* ------------------------------------------------------------------ bounds

\* Largest number of rows of the table handed to the Shaper.
MaxRows == 3

\* Largest week_inside_first a caller passes.
MaxWeekInside == 2

\* Largest number of Shaper calls of one run.
MaxCalls == 3

\* The largest number of rows of a table handed to detect_outlier on its own.
MaxOutlierRows == 7

\* ------------------------------------------------------- generic helpers

Max2(a, b) == IF a >= b THEN a ELSE b

Abs(a) == IF a >= 0 THEN a ELSE 0 - a

\* Optional argument: {} is Python's None, {v} the value v.
None == {}

Some(v) == {v}

TheValue(o) == CHOOSE v \in o : TRUE

\* The element of a one-element set.  Only({f(x) : x \in {e}}) is f(e) with e
\* evaluated once: it spells the assignment x = e of the code.
Only(S) == CHOOSE v \in S : TRUE

\* ---------------------------------------------------------- text helpers

Digits == <<"0", "1", "2", "3", "4", "5", "6", "7", "8", "9">>

\* Code point order of the characters the model uses.
CharOrder == <<".", "0", "1", "2", "3", "4", "5", "6", "7", "8", "9",
               "A", "B", "F", "L", "S", "T", "V", "X",
               "c", "d", "e", "f", "l", "o", "p", "q", "r", "s", "t", "u", "v", "x">>

Ord(c) == CHOOSE i \in DOMAIN CharOrder : CharOrder[i] = c

\* Python's str < str: lexicographic by code point, a proper prefix first.
StrLess(a, b) ==
    \E i \in 1..Len(b) :
        /\ \A j \in 1..(i - 1) : j <= Len(a) /\ a[j] = b[j]
        /\ \/ i > Len(a)
           \/ Ord(a[i]) < Ord(b[i])

\* max() over a set of strings.
MaxStr(S) == CHOOSE m \in S : \A x \in S : ~StrLess(m, x)

\* int() of the first n characters of a string of decimal digits.
RECURSIVE ToIntUpTo(_, _)
ToIntUpTo(s, n) ==
    IF n = 0 THEN 0
    ELSE 10 * ToIntUpTo(s, n - 1) + (CHOOSE d \in 0..9 : Digits[d + 1] = s[n])

\* int() of a string of decimal digits.
ToInt(s) == ToIntUpTo(s, Len(s))

\* s[:n]
Prefix(s, n) == SubSeq(s, 1, IF Len(s) < n THEN Len(s) ELSE n)

\* bool.astype(str)
BoolStr(b) == IF b THEN "True" ELSE "False"

\* --------------------------------------------------------- table helpers

BaseCols == {"release", "brand", "customer", "dedalo_area", "acquisition_mode_group",
             "creation_yearweek", "planned_delivery_yearweek", "qty"}

\* df[col] = f(row): the column is added, or overwritten when it exists.
SetCol(r, col, v) == (col :> v) @@ r

\* df.drop(cols, axis=1) on one row.
DropCols(r, cols) == [c \in (DOMAIN r) \ cols |-> r[c]]

\* The dimension tuple that identifies a row of a cleaned table.
RowKey(r) == [c \in BaseCols |-> r[c]]

NoTable == [cols |-> {}, rows |-> {}]

\* What one call does: err is "" or the exception raised, t the table
\* returned, arg the caller's table after the call, alias whether the table
\* returned is the very object the caller passed, steps the derivations the
\* call ran, in order.
Ok(t, arg, alias, steps) ==
    [err |-> "", t |-> t, arg |-> arg, alias |-> alias, steps |-> steps]

Raise(e, arg, steps) ==
    [err |-> e, t |-> NoTable, arg |-> arg, alias |-> FALSE, steps |-> steps]

\* ------------------------------------------------------------- calendar

IsLeap(y) == (y % 4 = 0) /\ ((y % 100 # 0) \/ (y % 400 = 0))

\* date(y, 1, 1).toordinal() - 1
DaysBeforeYear(y) ==
    (y - 1) * 365 + ((y - 1) \div 4) - ((y - 1) \div 100) + ((y - 1) \div 400)

\* date(y, 1, 1).weekday(), Monday = 0
FirstWeekday(y) == (DaysBeforeYear(y) + 1 + 6) % 7

\* strptime's day of the year for a %W week number and a weekday (Monday = 0).
CalcJulianFromW(year, week_of_year, day_of_week) ==
    LET first_weekday == FirstWeekday(year)
        week_0_length == (7 - first_weekday) % 7
    IN  IF week_of_year = 0
        THEN 1 + day_of_week - first_weekday
        ELSE 1 + week_0_length + 7 * (week_of_year - 1) + day_of_week

\* pd.to_datetime(str(yearweek) + '0', format='%Y%W%w') as a day ordinal:
\* %Y is the first four digits, %W the next two, %w = 0 is Sunday, which is
\* weekday 6 counting from Monday.
ToDatetime(yearweek) ==
    LET year   == yearweek \div 100
        week   == yearweek % 100
        julian == CalcJulianFromW(year, week, 6)
    IN  IF julian <= 0
        THEN DaysBeforeYear(year - 1) + julian + (IF IsLeap(year - 1) THEN 366 ELSE 365)
        ELSE DaysBeforeYear(year) + julian

\* ------------------------------------------------- first-order labeling

\* The labeling with the third condition of np.select left out: a REP row
\* that is no first order falls to the default.
new_acquisition_mode_no_third(first, acquisition_mode_group) ==
    IF first = TRUE /\ acquisition_mode_group = "REP" THEN "REP FIRST ORDER"
    ELSE IF acquisition_mode_group = "RED CARPET" THEN "EVENT"
    ELSE "REPLENISHMENT"

\* np.select(conditions, outcomes, default): the first condition that holds
\* decides.
new_acquisition_mode(first, acquisition_mode_group) ==
    IF first = TRUE /\ acquisition_mode_group = "REP" THEN "REP FIRST ORDER"
    ELSE IF acquisition_mode_group = "RED CARPET" THEN "EVENT"
    ELSE IF first = FALSE /\ acquisition_mode_group = "REP" THEN "REP REPLENISHMENT"
    ELSE "REPLENISHMENT"

\* The grouping with acquisition_mode_group in the key, as the docstring of
\* label_first_order has it.
SameFirstOrderGroup_with_mode(a, b) ==
    /\ a.release = b.release
    /\ a.brand = b.brand
    /\ a.customer = b.customer
    /\ a.dedalo_area = b.dedalo_area
    /\ a.acquisition_mode_group = b.acquisition_mode_group

\* columns_to_group of label_first_order (acquisition_mode_group is commented
\* out in the source).
SameFirstOrderGroup(a, b) ==
    /\ a.release = b.release
    /\ a.brand = b.brand
    /\ a.customer = b.customer
    /\ a.dedalo_area = b.dedalo_area

\* groupby(columns_to_group)['creation_yearweek_dt'].transform('min')
first_creation_yearweek_dt(df, r) ==
    LET dts == {ToDatetime(x.creation_yearweek) : x \in {y \in df.rows : SameFirstOrderGroup(y, r)}}
    IN  CHOOSE m \in dts : \A d \in dts : m <= d

\* week_diff < week_inside_first, week_diff being days / 7; a comparison with
\* None is False on every row.
first_order(df, r, week_inside_first) ==
    IF week_inside_first = None THEN FALSE
    ELSE ToDatetime(r.creation_yearweek) - first_creation_yearweek_dt(df, r)
            < 7 * TheValue(week_inside_first)

LabelRow(df, r, week_inside_first) ==
    Only({SetCol(SetCol(r, "first_order", fo),
                 "new_acquisition_mode", new_acquisition_mode(fo, r.acquisition_mode_group))
          : fo \in {first_order(df, r, week_inside_first)}})

label_first_order(df, week_inside_first) ==
    Ok([cols |-> df.cols \cup {"first_order", "new_acquisition_mode"},
        rows |-> {LabelRow(df, r, week_inside_first) : r \in df.rows}],
       df, FALSE, <<"labeling">>)

\* ------------------------------------------------ common year-week axis

year_release(r) == Prefix(r.release, 4)

\* The smallest year instead of the largest.
max_year_smallest(df) ==
    CHOOSE m \in {year_release(r) : r \in df.rows} :
        \A r \in df.rows : ~StrLess(year_release(r), m)

max_year(df) == MaxStr({year_release(r) : r \in df.rows})

\* diff = int(max_year) - int(year_release), max_year being the table's.
CommonRow(max, r) ==
    Only({SetCol(SetCol(r, "common_creation_yearweek", r.creation_yearweek + diff * 100),
                 "common_planned_delivery_yearweek", r.planned_delivery_yearweek + diff * 100)
          : diff \in {ToInt(max) - ToInt(year_release(r))}})

\* The derivation without the test for the column: it runs on every call.
create_common_creation_yearweek_always(df) ==
    Ok([cols |-> df.cols \cup {"common_creation_yearweek",
                               "common_planned_delivery_yearweek"},
        rows |-> UNION {{CommonRow(max, r) : r \in df.rows} : max \in {max_year(df)}}],
       df, FALSE, <<"common">>)

create_common_creation_yearweek(df) ==
    IF "common_creation_yearweek" \in df.cols
    THEN Ok(df, df, TRUE, <<>>)
    ELSE Ok([cols |-> df.cols \cup {"common_creation_yearweek",
                                    "common_planned_delivery_yearweek"},
             rows |-> UNION {{CommonRow(max, r) : r \in df.rows} : max \in {max_year(df)}}],
            df, FALSE, <<"common">>)

\* ------------------------------------------------------ comparability

\* df['brand'] + '-' + df['customer'] + '-' + df['dedalo_area'] + '-' +
\* df['new_acquisition_mode']
group_id(r) ==
    r.brand \o "-" \o r.customer \o "-" \o r.dedalo_area \o "-" \o r.new_acquisition_mode

\* groupby(id)['release'].nunique() == 2, id[r] being the group id of row r.
InBothReleases(rows, id, r) ==
    Cardinality({x.release : x \in {y \in rows : id[y] = id[r]}}) = 2

YN(b) == IF b THEN "Y" ELSE "N"

create_comp(df) ==
    IF "new_acquisition_mode" \notin df.cols
    THEN Raise("KeyError", df, <<>>)
    ELSE Ok([cols |-> df.cols \cup {"comp"},
             rows |-> {SetCol(r, "comp", YN(InBothReleases(df.rows, [x \in df.rows |-> group_id(x)], r)))
                         : r \in df.rows}],
            df, FALSE, <<"comp">>)

\* yw is int((date.today() - timedelta(days=7)).strftime('%Y%W')).
create_till_today(df, yw) ==
    Only({Ok([cols |-> c.t.cols \cup {"till_today"},
              rows |-> {SetCol(r, "till_today", YN(r.common_creation_yearweek <= yw))
                          : r \in c.t.rows}],
             df, FALSE, c.steps \o <<"till_today">>)
          : c \in {create_common_creation_yearweek(df)}})

group_id_today(r) == group_id(r) \o r.till_today \o r.comp

CompTodayRow(rows, r) ==
    LET pre == YN(InBothReleases(rows, [x \in rows |-> group_id_today(x)], r))
    IN  SetCol(SetCol(SetCol(r, "group_id", group_id_today(r)),
                      "comp_today_pre", pre),
               "comp_today",
               YN(r.till_today = "Y" /\ r.comp = "Y" /\ pre = "Y"))

\* Calling f when the column is missing.  The table is nowhere copied when
\* the column is there: alias is TRUE.
Reused(df) == Ok(df, df, TRUE, <<>>)

\* Lines 143-153 on the table df the prerequisites left: group_id,
\* comp_today_pre and comp_today are written into df itself, and the drop then
\* returns a new table.
CompTodayInPlace(df) ==
    [cols |-> df.cols \cup {"group_id", "comp_today_pre", "comp_today"},
     rows |-> {CompTodayRow(df.rows, r) : r \in df.rows}]

DropFrom(df, cols) ==
    [cols |-> df.cols \ cols, rows |-> {DropCols(r, cols) : r \in df.rows}]

\* create_comp_today copies its argument only through a prerequisite it has
\* to compute: when none is missing, the table written to is the caller's.
create_comp_today(df, week_inside_first, yw) ==
    Only({Only({Only({Only({
        Ok(DropFrom(work, {"group_id", "comp_today_pre"}),
           IF l.alias /\ c.alias /\ t.alias THEN work ELSE df,
           FALSE,
           l.steps \o c.steps \o t.steps \o <<"comp_today">>)
        : work \in {CompTodayInPlace(t.t)}})
        : t \in {IF "till_today" \notin c.t.cols THEN create_till_today(c.t, yw)
                 ELSE Reused(c.t)}})
        : c \in {IF "comp" \notin l.t.cols THEN create_comp(l.t) ELSE Reused(l.t)}})
        : l \in {IF ("new_acquisition_mode" \notin df.cols) \/ (week_inside_first # None)
                 THEN label_first_order(df, week_inside_first)
                 ELSE Reused(df)}})

\* ---------------------------------------------------- outlier detection

\* groupby(['brand', 'dedalo_area', 'new_acquisition_mode'])
OutlierGroup(df, r) ==
    {x \in df.rows : /\ x.brand = r.brand
                     /\ x.dedalo_area = r.dedalo_area
                     /\ x.new_acquisition_mode = r.new_acquisition_mode}

\* The (k+1)-th smallest of the values f[x], x in G, counted with repeats.
Kth(G, f, k) ==
    CHOOSE v \in {f[x] : x \in G} :
        /\ Cardinality({x \in G : f[x] < v}) <= k
        /\ k < Cardinality({x \in G : f[x] <= v})

Qty(G) == [x \in G |-> x.qty]

\* 4 * group['qty'].quantile(q4 / 4), pandas' linear interpolation between
\* the two order statistics around position (n - 1) * q4 / 4.
Quantile4(G, q4) ==
    LET n   == Cardinality(G)
        lo  == ((n - 1) * q4) \div 4
        rem == ((n - 1) * q4) % 4
        hi  == IF lo + 1 > n - 1 THEN n - 1 ELSE lo + 1
    IN  4 * Kth(G, Qty(G), lo) + (Kth(G, Qty(G), hi) - Kth(G, Qty(G), lo)) * rem

\* The bounds without the floor of 2 under the lower one.
detect_outliers_iqr_no_floor(G, r) ==
    \E Q1x4 \in {Quantile4(G, 1)} : \E Q3x4 \in {Quantile4(G, 3)} :
        LET IQRx4 == Q3x4 - Q1x4
            lower_bound_x8 == 2 * Q1x4 - 3 * IQRx4
            upper_bound_x8 == 2 * Q3x4 + 3 * IQRx4
        IN  ~(lower_bound_x8 <= 8 * r.qty /\ 8 * r.qty <= upper_bound_x8)

\* ~qty.between(max(2, Q1 - 1.5 * IQR), Q3 + 1.5 * IQR), every term times 8.
detect_outliers_iqr(G, r) ==
    \E Q1x4 \in {Quantile4(G, 1)} : \E Q3x4 \in {Quantile4(G, 3)} :
        LET IQRx4 == Q3x4 - Q1x4
            lower_bound_x8 == Max2(16, 2 * Q1x4 - 3 * IQRx4)
            upper_bound_x8 == 2 * Q3x4 + 3 * IQRx4
        IN  ~(lower_bound_x8 <= 8 * r.qty /\ 8 * r.qty <= upper_bound_x8)

\* 2 * np.median of the values f[x]: the middle one twice, or the sum of the
\* two middle ones.
Median2(G, f) ==
    LET n == Cardinality(G)
    IN  Kth(G, f, (n - 1) \div 2) + Kth(G, f, n \div 2)

\* |0.6745 * (qty - median) / mad| > 3.5.  With mad = 0 the quotient is inf
\* (flagged) for a row off the median and nan (not flagged) for a row on it.
detect_outliers_mad(G, r) ==
    \E med2 \in {Median2(G, Qty(G))} :
        LET Dev2(x) == Abs(2 * x.qty - med2)
        IN  \E mad4 \in {Median2(G, [x \in G |-> Dev2(x)])} :
                IF mad4 = 0 THEN Dev2(r) # 0
                ELSE 6745 * 2 * Dev2(r) > 35000 * mad4

KnownMethods == {"iqr", "mad", "iso", "svm"}

\* The isolation forest and the one-class SVM are fitted models: oracle is
\* the set of rows (by dimension tuple) the fitted model predicts as -1.
IsOutlier(df, r, method, oracle) ==
    IF method = "iqr" THEN \E G \in {OutlierGroup(df, r)} : detect_outliers_iqr(G, r)
    ELSE IF method = "mad" THEN \E G \in {OutlierGroup(df, r)} : detect_outliers_mad(G, r)
    ELSE RowKey(r) \in oracle

\* The dispatch with a final else that runs the default method.
detect_outlier_else_iqr(df, method, oracle) ==
    IF "new_acquisition_mode" \notin df.cols THEN Raise("KeyError", df, <<>>)
    ELSE Ok([cols |-> df.cols \cup {"outlier"},
             rows |-> {SetCol(r, "outlier",
                              IsOutlier(df, r, IF method \in KnownMethods THEN method ELSE "iqr",
                                        oracle)) : r \in df.rows}],
            df, FALSE, <<"outlier">>)

\* No branch of the if/elif chain binds df_outliers for an unknown method, and
\* the return statement then raises UnboundLocalError.
detect_outlier(df, method, oracle) ==
    IF method \notin KnownMethods THEN Raise("UnboundLocalError", df, <<>>)
    ELSE IF "new_acquisition_mode" \notin df.cols THEN Raise("KeyError", df, <<>>)
    ELSE Ok([cols |-> df.cols \cup {"outlier"},
             rows |-> {SetCol(r, "outlier", IsOutlier(df, r, method, oracle)) : r \in df.rows}],
            df, FALSE, <<"outlier">>)

CompNoOut(df) ==
    [cols |-> df.cols \cup {"comp_no_out"},
     rows |-> {SetCol(r, "comp_no_out", YN(r.outlier = FALSE /\ r.comp = "Y")) : r \in df.rows}]

create_comp_no_outliers(df, method, oracle) ==
    Only({IF c.err # "" THEN Raise(c.err, df, c.steps)
          ELSE Only({IF o.err # "" THEN Raise(o.err, df, c.steps \o o.steps)
                     ELSE Ok(CompNoOut(o.t), df, FALSE,
                             c.steps \o o.steps \o <<"comp_no_out">>)
                     : o \in {IF "outlier" \notin c.t.cols
                              THEN detect_outlier(c.t, method, oracle)
                              ELSE Reused(c.t)}})
          : c \in {IF "comp" \notin df.cols THEN create_comp(df) ELSE Reused(df)}})

group_id_today_no_out(r) == group_id(r) \o BoolStr(r.outlier) \o r.comp_today

\* Lines 237-247.
CompTodayNoOut(df) ==
    [cols |-> (df.cols \cup {"comp_today_no_out"}) \ {"group_id", "comp_today_no_out_pre"},
     rows |-> {DropCols(SetCol(r, "comp_today_no_out",
                               YN(/\ r.outlier = FALSE
                                  /\ r.comp_today = "Y"
                                  /\ InBothReleases(df.rows, [x \in df.rows |-> group_id_today_no_out(x)], r))),
                        {"group_id", "comp_today_no_out_pre"})
                 : r \in df.rows}]

\* The nested calls use their defaults: create_comp_today(df) has
\* week_inside_first = None, create_comp_no_outliers(df) has method 'iqr'.
\* The function works on a copy of its argument throughout.
create_comp_today_no_outliers(df, method, oracle, yw) ==
    Only({Only({IF o.err # "" THEN Raise(o.err, df, ct.steps \o o.steps)
                ELSE Only({IF n.err # ""
                           THEN Raise(n.err, df, ct.steps \o o.steps \o n.steps)
                           ELSE IF "new_acquisition_mode" \notin n.t.cols
                           THEN Raise("KeyError", df, ct.steps \o o.steps \o n.steps)
                           ELSE Ok(CompTodayNoOut(n.t), df, FALSE,
                                   ct.steps \o o.steps \o n.steps \o <<"comp_today_no_out">>)
                           : n \in {IF "comp_no_out" \notin o.t.cols
                                    THEN create_comp_no_outliers(o.t, "iqr", oracle)
                                    ELSE Reused(o.t)}})
                : o \in {IF "outlier" \notin ct.t.cols
                         THEN detect_outlier(ct.t, method, oracle)
                         ELSE Reused(ct.t)}})
          : ct \in {IF "comp_today" \notin df.cols THEN create_comp_today(df, None, yw)
                    ELSE Reused(df)}})

\* ------------------------------------------------------------- importer

\* The new_col_name dictionary: raw column name -> canonical name.
new_col_name ==
    [raw \in {"SAP - Order Type", "NPI_Release", "Brand - code",
              "Calendar - Planned Delivery Date - Date", "Planned Delivery Date: Month",
              "Calendar - Order Date - Year Week",
              "Calendar - Planned Delivery Date - Year Week",
              "Customer Sold To Description act", "Customer: Code",
              "SAP Optical/Sun/Clip On Desc", "Orders - KeyAccountCode", "Subsidiary Name",
              "Short Trip - Datest Code", "Short Trip - DEDALO Area", "Acquisition Mode Desc",
              "Acquisition Mode Group", "Orders - Specification",
              "Customer Sales: GTM Rating", "No Return Frame - TOTAL Order Qty"} |->
        CASE raw = "SAP - Order Type" -> "order_type"
          [] raw = "NPI_Release" -> "release"
          [] raw = "Brand - code" -> "brand"
          [] raw = "Calendar - Planned Delivery Date - Date" -> "planned_delivery_date"
          [] raw = "Planned Delivery Date: Month" -> "planned_delivery_month"
          [] raw = "Calendar - Order Date - Year Week" -> "creation_yearweek"
          [] raw = "Calendar - Planned Delivery Date - Year Week" -> "planned_delivery_yearweek"
          [] raw = "Customer Sold To Description act" -> "customer_sold_to"
          [] raw = "Customer: Code" -> "customer"
          [] raw = "SAP Optical/Sun/Clip On Desc" -> "division"
          [] raw = "Orders - KeyAccountCode" -> "key_account_code"
          [] raw = "Subsidiary Name" -> "datest_name"
          [] raw = "Short Trip - Datest Code" -> "datest"
          [] raw = "Short Trip - DEDALO Area" -> "dedalo_area"
          [] raw = "Acquisition Mode Desc" -> "acquisition_mode_desc"
          [] raw = "Acquisition Mode Group" -> "acquisition_mode_group"
          [] raw = "Orders - Specification" -> "order_specification"
          [] raw = "Customer Sales: GTM Rating" -> "customer_type"
          [] raw = "No Return Frame - TOTAL Order Qty" -> "qty"]

\* list(new_col_name.values())
ExpectedColumns == {new_col_name[raw] : raw \in DOMAIN new_col_name}

\* df.rename(columns=new_col_name): a name the dictionary does not hold stays.
Rename(columns) ==
    [i \in DOMAIN columns |->
        IF columns[i] \in DOMAIN new_col_name THEN new_col_name[columns[i]] ELSE columns[i]]

Count(columns, name) == Cardinality({i \in DOMAIN columns : columns[i] = name})

\* sorted(df.columns.to_list()) == sorted(list(new_col_name.values())): the
\* two lists hold the same names the same number of times.
ColumnsMatch(columns) ==
    \A name \in ExpectedColumns \cup {columns[i] : i \in DOMAIN columns} :
        Count(columns, name) = IF name \in ExpectedColumns THEN 1 ELSE 0

\* The greatest index of a "." in s, 0 when there is none (str.rfind + 1).
LastDot(s) ==
    LET dots == {i \in DOMAIN s : s[i] = "."}
    IN  IF dots = {} THEN 0 ELSE CHOOSE i \in dots : \A j \in dots : j <= i

\* pathlib's PurePath.suffix of a file name.
Suffix(name) ==
    LET i == LastDot(name)
    IN  IF 1 < i /\ i < Len(name) THEN SubSeq(name, i, Len(name)) ELSE <<>>

valid_extensions == {<<".", "x", "l", "s", "x">>, <<".", "c", "s", "v">>, <<".", "p", "a", "r", "q", "u", "e", "t">>}

\* The comparison of lines 77-78 is computed and its value dropped; comparing
\* two lists of strings does not raise, so the except branch never runs.
\* reader is the outcome of the pandas reader: "" or the exception it raises.
import_one_file(path_to_file, header, reader) ==
    IF Suffix(path_to_file) \in valid_extensions
    THEN IF reader # "" THEN [err |-> reader, columns |-> <<>>]
         ELSE LET columns  == Rename(header)
                  compared == ColumnsMatch(columns)
              IN  [err |-> "", columns |-> columns]
    ELSE [err |-> "ValueError", columns |-> <<>>]

\* ---------------------------------------------------------------- writer

\* name.split(".")[-1]
Format(name) == SubSeq(name, LastDot(name) + 1, Len(name))

\* The if/elif chain has no else: with another format save writes nothing and
\* returns None.
save(df, files, name) ==
    LET format == Format(name)
    IN  IF format \in {<<"x", "l", "s", "x">>, <<"p", "a", "r", "q", "u", "e", "t">>, <<"c", "s", "v">>}
        THEN files \cup {[name |-> name, format |-> format, table |-> df]}
        ELSE files

\* ------------------------------------------------------- input domains

R2023A == <<"2", "0", "2", "3", "A">>

R2024A == <<"2", "0", "2", "4", "A">>

R2024B == <<"2", "0", "2", "4", "B">>

Row(release, brand, customer, group, creation, qty) ==
    [release |-> release, brand |-> brand, customer |-> customer, dedalo_area |-> "E",
     acquisition_mode_group |-> group, creation_yearweek |-> creation,
     planned_delivery_yearweek |-> creation + 4, qty |-> qty]

\* Rows of the single-call runs: three releases over two years, and two
\* (brand, customer) pairs.
RowsMain ==
    {Row(rel, bc[1], bc[2], "REP", cq[1], cq[2]) :
        rel \in {R2023A, R2024A, R2024B},
        bc \in {<<"a", "b-c">>, <<"a-b", "c">>},
        cq \in {<<202401, 10>>, <<202405, 1>>}}

\* Rows of the pipeline runs: one (brand, customer) pair in two releases.
RowsPipeline ==
    {Row(rel, "a", "c", "REP", cq[1], cq[2]) :
        rel \in {R2023A, R2024A},
        cq \in {<<202401, 10>>, <<202405, 1>>}}

\* Rows of the labeling runs: one release, two customers, the three kinds of
\* acquisition_mode_group, and weeks on both sides of a year's end.
RowsLabel ==
    {Row(R2024A, "a", cust, grp, week, 10) :
        cust \in {"c", "d"},
        grp \in {"REP", "RED CARPET", "EDI"},
        week \in {202001, 202002, 202005, 202052, 202100}}

\* Rows of the outlier runs: brand 'a' bought by REP with the quantities
\* 10, 12, 11, 13, 9, 100 and with 1 and a second 10, an EDI row of the same
\* brand, and two rows of brand 'b'.  All rows are created in one week.
RowsOutlier ==
    {Row(R2024A, "a", cq[1], "REP", 202401, cq[2]) :
        cq \in {<<"c1", 10>>, <<"c2", 12>>, <<"c3", 11>>, <<"c4", 13>>, <<"c5", 9>>,
                <<"c6", 100>>, <<"c7", 1>>, <<"c8", 10>>}}
    \cup {Row(R2024A, "a", "c1", "EDI", 202401, 500),
          Row(R2024A, "b", "c1", "REP", 202401, 1000),
          Row(R2024A, "b", "c2", "REP", 202401, 1)}

\* The cleaned tables over a set of rows: B_cleaning.grouping leaves the rows
\* pairwise distinct, and the table holds the cleaner's columns only.
RECURSIVE SubsetsUpTo(_, _)
SubsetsUpTo(S, k) ==
    IF k = 0 THEN {{}}
    ELSE {{}} \cup {s \cup {x} : s \in SubsetsUpTo(S, k - 1), x \in S}

CleanedTables(Rows) ==
    {[cols |-> BaseCols, rows |-> rs] : rs \in SubsetsUpTo(Rows, MaxRows) \ {{}}}

\* The year-week of the day one week before the run.
YearWeeks == {202403, 202510}

WeekInsides == 0..MaxWeekInside

Methods == KnownMethods \cup {"zscore"}

\* What the fitted models of 'iso' and 'svm' may predict on the table.
Oracles(df, method) ==
    IF method \in {"iso", "svm"} THEN SUBSET {RowKey(r) : r \in df.rows} ELSE {{}}

\* ------------------------------------------------------------ IO inputs

\* The header of the reference extract: the raw names of new_col_name.
RawHeader ==
    <<"SAP - Order Type", "NPI_Release", "Brand - code",
      "Calendar - Planned Delivery Date - Date", "Planned Delivery Date: Month",
      "Calendar - Order Date - Year Week", "Calendar - Planned Delivery Date - Year Week",
      "Customer Sold To Description act", "Customer: Code", "SAP Optical/Sun/Clip On Desc",
      "Orders - KeyAccountCode", "Subsidiary Name", "Short Trip - Datest Code",
      "Short Trip - DEDALO Area", "Acquisition Mode Desc", "Acquisition Mode Group",
      "Orders - Specification", "Customer Sales: GTM Rating",
      "No Return Frame - TOTAL Order Qty">>

\* Headers of the files read: the reference one, one with a column missing,
\* one with an extra column, one with a raw column under another name, and one
\* that holds a canonical name beside its raw one.
Headers ==
    {RawHeader,
     Tail(RawHeader),
     Append(RawHeader, "Notes"),
     [RawHeader EXCEPT ![2] = "Release"],
     Append(RawHeader, "qty")}

Paths == {<<"f", ".", "x", "l", "s", "x">>,
          <<"f", ".", "c", "s", "v">>,
          <<"f", ".", "p", "a", "r", "q", "u", "e", "t">>,
          <<"f", ".", "t", "x", "t">>,
          <<"f", ".", "X", "L", "S", "X">>,
          <<"f">>,
          <<".", "c", "s", "v">>}

Names == {<<"o", ".", "x", "l", "s", "x">>,
          <<"o", ".", "c", "s", "v">>,
          <<"o", ".", "p", "a", "r", "q", "u", "e", "t">>,
          <<"o", ".", "t", "x", "t">>,
          <<"o", ".", "C", "S", "V">>,
          <<"o">>,
          <<"q", ".", "o", ".", "c", "s", "v">>}

\* What the pandas reader does with an existing file.  read_parquet is handed
\* a dtype argument, which the pyarrow reader of some versions rejects.
ReaderOutcomes(path) ==
    IF Suffix(path) = <<".", "p", "a", "r", "q", "u", "e", "t">> THEN {"", "TypeError"} ELSE {""}

\* ---------------------------------------------------------- state machine

Idle ==
    [op |-> "none", week_inside_first |-> None, method |-> "", passed |-> NoTable,
     err |-> "", t |-> NoTable, alias |-> FALSE, steps |-> <<>>]

IdleIO == [op |-> "none", name |-> <<>>, header |-> <<>>, err |-> "", columns |-> <<>>]

\* The caller is between two calls and may make another one.
CanCall == res.op = "none" /\ calls < MaxCalls

\* The caller runs op on its table: data is the caller's table, which the call
\* may have written to, and res holds what was passed and what the call
\* returned or raised.
Call(op, week_inside_first, method, o) ==
    /\ calls' = calls + 1
    /\ data' = o.arg
    /\ res' = [op |-> op, week_inside_first |-> week_inside_first, method |-> method,
               passed |-> data, err |-> o.err, t |-> o.t, alias |-> o.alias,
               steps |-> o.steps]
    /\ UNCHANGED <<year_week, io, disk>>

Call_label_first_order ==
    /\ CanCall
    /\ \E w \in WeekInsides : \E o \in {label_first_order(data, Some(w))} :
          Call("label_first_order", Some(w), "", o)

Call_create_common_creation_yearweek ==
    /\ CanCall
    /\ \E o \in {create_common_creation_yearweek(data)} :
          Call("create_common_creation_yearweek", None, "", o)

Call_create_comp ==
    /\ CanCall
    /\ \E o \in {create_comp(data)} : Call("create_comp", None, "", o)

Call_create_till_today ==
    /\ CanCall
    /\ \E o \in {create_till_today(data, year_week)} : Call("create_till_today", None, "", o)

Call_create_comp_today ==
    /\ CanCall
    /\ \E w \in {None} \cup {Some(x) : x \in WeekInsides} :
          \E o \in {create_comp_today(data, w, year_week)} :
              Call("create_comp_today", w, "", o)

Call_detect_outlier ==
    /\ CanCall
    /\ \E method \in Methods : \E oracle \in Oracles(data, method) :
          \E o \in {detect_outlier(data, method, oracle)} :
              Call("detect_outlier", None, method, o)

Call_create_comp_no_outliers ==
    /\ CanCall
    /\ \E method \in Methods : \E oracle \in Oracles(data, method) :
          \E o \in {create_comp_no_outliers(data, method, oracle)} :
              Call("create_comp_no_outliers", None, method, o)

Call_create_comp_today_no_outliers ==
    /\ CanCall
    /\ \E method \in Methods : \E oracle \in Oracles(data, method) :
          \E o \in {create_comp_today_no_outliers(data, method, oracle, year_week)} :
              Call("create_comp_today_no_outliers", None, method, o)

\* df = op(df): the caller goes on with the table returned.  An exception
\* ends the run.
Return ==
    /\ res.op # "none"
    /\ res.err = ""
    /\ data' = res.t
    /\ res' = Idle
    /\ UNCHANGED <<year_week, calls, io, disk>>

\* The Importer reads one file.  A failed import ends the run.
Call_import_one_file ==
    /\ io.err = ""
    /\ \E path \in Paths : \E header \in Headers : \E reader \in ReaderOutcomes(path) :
          \E o \in {import_one_file(path, header, reader)} :
              io' = [op |-> "import_one_file", name |-> path, header |-> header,
                     err |-> o.err, columns |-> o.columns]
    /\ UNCHANGED <<data, res, year_week, calls, disk>>

\* The Writer saves the caller's table under a file name.
Call_save ==
    /\ io.err = ""
    /\ \E name \in Names :
          /\ disk' = save(data, disk, name)
          /\ io' = [op |-> "save", name |-> name, header |-> <<>>, err |-> "",
                    columns |-> <<>>]
    /\ UNCHANGED <<data, res, year_week, calls>>

\* ------------------------------------------------- the Shaper pipeline

Init ==
    /\ data \in CleanedTables(RowsPipeline)
    /\ res = Idle
    /\ year_week \in YearWeeks
    /\ calls = 0
    /\ io = IdleIO
    /\ disk = {}

Next ==
    \/ Call_label_first_order
    \/ Call_create_common_creation_yearweek
    \/ Call_create_comp
    \/ Call_create_till_today
    \/ Call_create_comp_today
    \/ Call_detect_outlier
    \/ Call_create_comp_no_outliers
    \/ Call_create_comp_today_no_outliers
    \/ Return

Spec == Init /\ [][Next]_vars

\* --------------------------------- one Shaper call on a table of any stage

\* The tables the pipeline holds at its stages: cleaned, labelled, with the
\* as-of-today flags, and with every flag.
Stages(t, yw) ==
    {t,
     label_first_order(t, Some(2)).t,
     create_comp_today(t, None, yw).t,
     create_comp_today_no_outliers(t, "iqr", {}, yw).t}

InitCall ==
    /\ year_week \in YearWeeks
    /\ data \in UNION {Stages(t, year_week) : t \in CleanedTables(RowsMain)}
    /\ res = Idle
    /\ calls = 0
    /\ io = IdleIO
    /\ disk = {}

NextCall ==
    \/ Call_label_first_order
    \/ Call_create_common_creation_yearweek
    \/ Call_create_comp
    \/ Call_create_till_today
    \/ Call_create_comp_today
    \/ Call_detect_outlier
    \/ Call_create_comp_no_outliers
    \/ Call_create_comp_today_no_outliers

SpecCall == InitCall /\ [][NextCall]_vars

\* ------------------------------------------- label_first_order on its own

InitLabel ==
    /\ data \in CleanedTables(RowsLabel)
    /\ res = Idle
    /\ year_week = 202403
    /\ calls = 0
    /\ io = IdleIO
    /\ disk = {}

NextLabel == Call_label_first_order

SpecLabel == InitLabel /\ [][NextLabel]_vars

\* ---------------------------------------------- detect_outlier on its own

\* The statistical methods: their result is a function of the table.
Call_detect_outlier_statistical ==
    /\ CanCall
    /\ \E method \in {"iqr", "mad"} :
          \E o \in {detect_outlier(data, method, {})} :
              Call("detect_outlier", None, method, o)

InitOutlier ==
    /\ data \in {label_first_order([cols |-> BaseCols, rows |-> rs], Some(2)).t :
                    rs \in SubsetsUpTo(RowsOutlier, MaxOutlierRows) \ {{}}}
    /\ res = Idle
    /\ year_week = 202403
    /\ calls = 0
    /\ io = IdleIO
    /\ disk = {}

NextOutlier == Call_detect_outlier_statistical

SpecOutlier == InitOutlier /\ [][NextOutlier]_vars

\* ------------------------------------------------ Importer and Writer

InitIO ==
    /\ data \in {t \in CleanedTables(RowsPipeline) : Cardinality(t.rows) = 1}
    /\ res = Idle
    /\ year_week = 202403
    /\ calls = 0
    /\ io = IdleIO
    /\ disk = {}

NextIO ==
    \/ Call_import_one_file
    \/ Call_save

SpecIO == InitIO /\ [][NextIO]_vars

\* ------------------------------------------------------------- claims

\* The rows of a table that share the four key values of row r.
SameKeyRows(rows, r) ==
    {x \in rows : /\ x.brand = r.brand
                  /\ x.customer = r.customer
                  /\ x.dedalo_area = r.dedalo_area
                  /\ x.new_acquisition_mode = r.new_acquisition_mode}

Returned(op) == res.op = op /\ res.err = ""

\* C1: after create_comp, a row has comp = 'Y' exactly when the rows that
\* share its (brand, customer, dedalo_area, new_acquisition_mode) values hold
\* exactly 2 distinct releases; rows whose key values differ share no group.
C1_CompIffTwoReleasesOfKey ==
    Returned("create_comp") =>
        \A r \in res.t.rows :
            (r.comp = "Y") <=>
                (Cardinality({x.release : x \in SameKeyRows(res.t.rows, r)}) = 2)

YesNo == {"Y", "N"}

FlagColumns == {"comp", "comp_today", "comp_no_out", "comp_today_no_out"}

\* C2: in every table create_comp_today or create_comp_today_no_outliers
\* returns, each flag column present holds 'Y' or 'N', comp_today = 'Y'
\* implies comp = 'Y' and till_today = 'Y', and comp_today_no_out = 'Y'
\* implies outlier = false and comp_today = 'Y'.
C2_FlagImplications ==
    (Returned("create_comp_today") \/ Returned("create_comp_today_no_outliers")) =>
        \A r \in res.t.rows :
            /\ \A c \in FlagColumns \cap res.t.cols : r[c] \in YesNo
            /\ (r.comp_today = "Y") => (r.comp = "Y" /\ r.till_today = "Y")
            /\ ("comp_today_no_out" \in res.t.cols /\ r.comp_today_no_out = "Y")
                  => (r.outlier = FALSE /\ r.comp_today = "Y")

\* The dependency order of the derivations, and the flag each flag operation
\* is to return.
FlagOrder ==
    <<"labeling", "comp", "till_today", "comp_today", "outlier", "comp_no_out",
      "comp_today_no_out">>

OrderIndex(step) == CHOOSE i \in DOMAIN FlagOrder : FlagOrder[i] = step

FlagOf ==
    [create_comp |-> "comp", create_comp_today |-> "comp_today",
     create_comp_no_outliers |-> "comp_no_out",
     create_comp_today_no_outliers |-> "comp_today_no_out"]

DefaultArguments ==
    /\ res.week_inside_first = None
    /\ res.op \in {"create_comp_no_outliers", "create_comp_today_no_outliers"}
          => res.method = "iqr"

\* C3: a flag operation called with its default arguments on a cleaned table
\* without derived columns computes the missing prerequisites in the
\* dependency order and returns a table that holds its flag.
C3_FlagFromCleanedTable ==
    (res.op \in DOMAIN FlagOf /\ DefaultArguments /\ res.passed.cols = BaseCols) =>
        /\ res.err = ""
        /\ FlagOf[res.op] \in res.t.cols
        /\ \A i, j \in DOMAIN res.steps :
              (i < j /\ res.steps[i] # "common" /\ res.steps[j] # "common")
                  => OrderIndex(res.steps[i]) < OrderIndex(res.steps[j])

\* C4: after label_first_order, new_acquisition_mode is 'REP FIRST ORDER' on a
\* REP row that is a first order, 'EVENT' on a RED CARPET row, 'REP
\* REPLENISHMENT' on a REP row that is no first order, and 'REPLENISHMENT' on
\* every other row.
C4_Reclassification ==
    Returned("label_first_order") =>
        \A r \in res.t.rows :
            /\ (r.first_order /\ r.acquisition_mode_group = "REP")
                  => r.new_acquisition_mode = "REP FIRST ORDER"
            /\ (r.acquisition_mode_group = "RED CARPET")
                  => r.new_acquisition_mode = "EVENT"
            /\ (~r.first_order /\ r.acquisition_mode_group = "REP")
                  => r.new_acquisition_mode = "REP REPLENISHMENT"
            /\ (r.acquisition_mode_group \notin {"REP", "RED CARPET"})
                  => r.new_acquisition_mode = "REPLENISHMENT"
            /\ r.new_acquisition_mode \in
                  {"REP FIRST ORDER", "EVENT", "REP REPLENISHMENT", "REPLENISHMENT"}

\* C4's case: one table holds a first-order REP row, a later REP row and a
\* RED CARPET row, labelled each in its own way.
C4_Witness ==
    /\ Returned("label_first_order")
    /\ \E a, b, c \in res.t.rows :
          /\ a.acquisition_mode_group = "REP" /\ a.new_acquisition_mode = "REP FIRST ORDER"
          /\ b.acquisition_mode_group = "REP" /\ b.new_acquisition_mode = "REP REPLENISHMENT"
          /\ c.acquisition_mode_group = "RED CARPET" /\ c.new_acquisition_mode = "EVENT"

\* The rows that share (release, brand, customer, dedalo_area) with row r.
CustomerReleaseRows(rows, r) ==
    {x \in rows : /\ x.release = r.release
                  /\ x.brand = r.brand
                  /\ x.customer = r.customer
                  /\ x.dedalo_area = r.dedalo_area}

\* The earliest creation week, as a number, among a set of rows.
EarliestWeek(rows) ==
    CHOOSE w \in {x.creation_yearweek : x \in rows} :
        \A x \in rows : w <= x.creation_yearweek

C6_ArgumentUnchanged ==
    (res.op # "none") => (data = res.passed)

OutlierOps == {"detect_outlier", "create_comp_no_outliers", "create_comp_today_no_outliers"}

\* The call hands its method tag to detect_outlier: it is detect_outlier, or
\* the table passed has no outlier column.
PassesTagOn == res.op = "detect_outlier" \/ "outlier" \notin res.passed.cols

\* C7: detect_outlier, and the two operations that pass the tag on, raise and
\* return no table when the tag is none of 'iqr', 'mad', 'iso', 'svm'; a table
\* any of the three returns holds the outlier column.
C7_UnknownMethodRaises ==
    (res.op \in OutlierOps) =>
        /\ (res.method \notin KnownMethods /\ PassesTagOn)
              => (res.err # "" /\ res.t = NoTable)
        /\ (res.err = "") => ("outlier" \in res.t.cols)

\* C7's case: create_comp_today_no_outliers computed comp_today and then
\* handed an unknown tag to detect_outlier.
C7_Witness ==
    /\ res.op = "create_comp_today_no_outliers"
    /\ res.method = "zscore"
    /\ res.err = "UnboundLocalError"
    /\ "comp_today" \in {res.steps[i] : i \in DOMAIN res.steps}

\* C8: import_one_file raises on a path whose extension is not xlsx, csv or
\* parquet, and save raises on such a file name: a save that returns has
\* written the file.
C8_UnsupportedFormatIsFatal ==
    /\ (io.op = "import_one_file" /\ Suffix(io.name) \notin valid_extensions)
          => io.err # ""
    /\ (io.op = "save" /\ io.err = "") => (\E f \in disk : f.name = io.name)

\* C9: import_one_file returns a table only when the set of its renamed
\* column names is the expected set of canonical names.
C9_SchemaMismatchIsFatal ==
    (io.op = "import_one_file" /\ io.err = "") =>
        {io.columns[i] : i \in DOMAIN io.columns} = ExpectedColumns

\* The year a release names, read digit by digit.
YearOf(release) ==
    LET d(i) == CHOOSE n \in 0..9 : Digits[n + 1] = release[i]
    IN  1000 * d(1) + 100 * d(2) + 10 * d(3) + d(4)

\* The largest year among the releases of a set of rows.
LatestYear(rows) ==
    CHOOSE y \in {YearOf(x.release) : x \in rows} : \A x \in rows : YearOf(x.release) <= y

\* C10: after create_common_creation_yearweek on a table without the common
\* columns, each common week is the row's week plus 100 times the distance of
\* the release's year to the latest year of the table.
C10_CommonYearWeek ==
    (Returned("create_common_creation_yearweek")
        /\ "common_creation_yearweek" \notin res.passed.cols) =>
        \A r \in res.t.rows :
            LET shift == (LatestYear(res.t.rows) - YearOf(r.release)) * 100
            IN  /\ r.common_creation_yearweek = r.creation_yearweek + shift
                /\ r.common_planned_delivery_yearweek = r.planned_delivery_yearweek + shift

\* C10's case: a 2023A row beside a row of 2024 is shifted by 100, and the row
\* of 2024 keeps its weeks.
C10_Witness ==
    /\ Returned("create_common_creation_yearweek")
    /\ "common_creation_yearweek" \notin res.passed.cols
    /\ \E a, b \in res.t.rows :
          /\ a.release = R2023A
          /\ a.common_creation_yearweek = a.creation_yearweek + 100
          /\ a.common_planned_delivery_yearweek = a.planned_delivery_yearweek + 100
          /\ b.release = R2024A
          /\ b.common_creation_yearweek = b.creation_yearweek
          /\ b.common_planned_delivery_yearweek = b.planned_delivery_yearweek

\* The quantities of a set of rows in ascending order, one entry per row.
RECURSIVE AscendingQty(_)
AscendingQty(G) ==
    IF G = {} THEN <<>>
    ELSE Only({<<m.qty>> \o AscendingQty(G \ {m})
               : m \in {CHOOSE x \in G : \A y \in G : x.qty <= y.qty}})

\* Four times the quartile q (1 or 3) of an ascending sequence: the entry at
\* position (n - 1) * q / 4, interpolated linearly between its two neighbours.
Quartile4(sorted, q) ==
    LET h4 == (Len(sorted) - 1) * q
        i  == h4 \div 4 + 1
    IN  IF h4 % 4 = 0 THEN 4 * sorted[i]
        ELSE 4 * sorted[i] + (h4 % 4) * (sorted[i + 1] - sorted[i])

\* qty < max(2, Q1 - 1.5 * IQR) or qty > Q3 + 1.5 * IQR, for the quartiles of
\* an ascending sequence; both sides times 8.
OutsideIqrBounds(sorted, qty) ==
    \E Q1 \in {Quartile4(sorted, 1)} : \E Q3 \in {Quartile4(sorted, 3)} :
        \/ 8 * qty < Max2(16, 2 * Q1 - 3 * (Q3 - Q1))
        \/ 8 * qty > 2 * Q3 + 3 * (Q3 - Q1)

\* The rows of r's (brand, dedalo_area, new_acquisition_mode) group.
BrandAreaModeRows(rows, r) ==
    {x \in rows : /\ x.brand = r.brand
                  /\ x.dedalo_area = r.dedalo_area
                  /\ x.new_acquisition_mode = r.new_acquisition_mode}

ExampleQty == <<9, 10, 11, 12, 13, 100>>

C12_CommonIdempotent ==
    Returned("create_common_creation_yearweek") =>
        /\ ("common_creation_yearweek" \in res.passed.cols) =>
               (res.t = res.passed /\ res.steps = <<>>)
        /\ \E again \in {create_common_creation_yearweek(res.t)} :
               again.err = "" /\ again.t = res.t /\ again.steps = <<>>

\* C12's case: the call on a table that holds the column, with a row of an
\* earlier year whose common week is not its own week.
C12_Witness ==
    /\ Returned("create_common_creation_yearweek")
    /\ "common_creation_yearweek" \in res.passed.cols
    /\ \E r \in res.t.rows : r.common_creation_yearweek # r.creation_yearweek

\* C13: whatever Shaper operations ran before, in the table create_comp_today
\* returns (called with a week_inside_first or without one, on a table that
\* holds comp or not) every row's comp is 'Y' exactly when the rows that share
\* its (brand, customer, dedalo_area, new_acquisition_mode) values, as the
\* table holds them now, are of exactly 2 distinct releases.
C13_CompFollowsLabels ==
    (Returned("create_comp_today") /\ "comp" \in res.t.cols) =>
        \A r \in res.t.rows :
            (r.comp = "Y") <=> (Cardinality({x.release : x \in SameKeyRows(res.t.rows, r)}) = 2)

\* Row r has a row of another release with its brand, customer, dedalo_area
\* and new_acquisition_mode on which the flag is 'Y'.
HasCounterpart(rows, r, flag) ==
    \E x \in SameKeyRows(rows, r) : x.release # r.release /\ x[flag] = "Y"

\* C14: in the table create_comp_today returns every row with comp_today = 'Y'
\* has a row of a different release with the same brand, customer,
\* dedalo_area and new_acquisition_mode whose comp_today is 'Y' too; in the
\* table create_comp_today_no_outliers returns the same holds of
\* comp_today_no_out.
C14_YesHasCounterpart ==
    /\ Returned("create_comp_today") =>
           \A r \in res.t.rows :
               (r.comp_today = "Y") => HasCounterpart(res.t.rows, r, "comp_today")
    /\ Returned("create_comp_today_no_outliers") =>
           \A r \in res.t.rows :
               (r.comp_today_no_out = "Y") => HasCounterpart(res.t.rows, r, "comp_today_no_out")

====
